---- MODULE Spec2Model ----
(***************************************************************************)
(* A model of the agent lineage tracker of the Bigeye MCP server           *)
(* (src/lineage_tracker.py) and of the lineage tool handlers of             *)
(* src/server.py that drive it.                                             *)
(*                                                                          *)
(* A Python str is a sequence of one-character strings, so that split,      *)
(* upper, islower and the f-string keys are computed and not assumed.       *)
(* A node id is an opaque token ("n1", "a8"); Python's None is None, and    *)
(* "list or None" results are the list itself, <<>> standing for None.      *)
(* A coroutine is a program counter pc; every await of a remote call is     *)
(* two steps, the one that issues the request (net) and the one that        *)
(* resumes with one of the outcomes the client can produce.                 *)
(***************************************************************************)
EXTENDS Integers, Sequences, FiniteSets, TLC

\* ------------------------------------------------------------------ bounds
MaxOps == 2          \* tool calls started in one behaviour of Spec
MaxCommitOps == 4    \* tool calls started in one behaviour of SpecCommit
MaxCleanups == 2     \* tool calls started in one behaviour of SpecCleanup
MaxTrackLen == 1     \* names in one track_asset_access call
MaxEdges == 2        \* edges in one get_lineage_edges_for_node response
MaxTime == 2         \* clock readings and creation times are 0..MaxTime (days)
MaxRetention == 1    \* retention_days is 0..MaxRetention
MaxTrackOps == 2     \* tool calls started in one behaviour of SpecTrack
MaxListLen == 2      \* names in one track_asset_access call of SpecTrack
MaxConcurrentOps == 3  \* tool calls started in one behaviour of SpecConcurrent
MaxSessionOps == 4   \* tool calls started in one behaviour of SpecSession

None == "None"

\* None where a str is expected (no str holds a many-character element)
NoneStr == <<None>>

\* the truth value of an Optional[str]
Truthy(s) == s # NoneStr /\ s # <<>>

\* ------------------------------------------------------------------ strings
Dot == "."

LowerChars == {"a", "c", "d", "e", "s", "t", "u", "w"}

UpperChars == {"A", "C", "D", "E", "S", "T", "U", "W"}

UpperChar(ch) ==
    CASE ch = "a" -> "A" [] ch = "c" -> "C" [] ch = "d" -> "D" [] ch = "e" -> "E"
      [] ch = "s" -> "S" [] ch = "t" -> "T" [] ch = "u" -> "U" [] ch = "w" -> "W"
      [] OTHER -> ch

\* the string as it was given
UpperKept(s) == s

\* str.upper()
Upper(s) == [i \in DOMAIN s |-> UpperChar(s[i])]

\* str.islower(): at least one cased character and no upper-case one
IsLower(s) ==
    /\ \E i \in DOMAIN s : s[i] \in LowerChars
    /\ \A i \in DOMAIN s : s[i] \notin UpperChars

\* "_" in s
HasUnderscore(s) == \E i \in DOMAIN s : s[i] = "_"

RECURSIVE SplitFrom(_, _, _)
SplitFrom(s, i, cur) ==
    IF i > Len(s) THEN <<cur>>
    ELSE IF s[i] = Dot THEN <<cur>> \o SplitFrom(s, i + 1, <<>>)
    ELSE SplitFrom(s, i + 1, Append(cur, s[i]))

\* str.split(".")
Split(s) == SplitFrom(s, 1, <<>>)

RECURSIVE Join(_)
\* ".".join(parts), the f"{a}.{b}.{c}" of the source
Join(parts) ==
    IF Len(parts) = 0 THEN <<>>
    ELSE IF Len(parts) = 1 THEN parts[1]
    ELSE parts[1] \o <<Dot>> \o Join(Tail(parts))

\* ------------------------------------------------------------------ parser
NoParse == [ok |-> FALSE, warehouse |-> NoneStr, database |-> NoneStr,
            schema |-> NoneStr, table |-> NoneStr, column |-> NoneStr]

Parsed(w, d, s, t, c) == [ok |-> TRUE, warehouse |-> w, database |-> d,
                          schema |-> s, table |-> t, column |-> c]

\* the heuristic without its underscore test
LooksLikeColumnLowerOnly(part) == IsLower(part)

\* the 4-segment heuristic: the last part is taken for a column
LooksLikeColumn(part) == IsLower(part) \/ HasUnderscore(part)

parse_qualified_name(qualified_name) ==
    LET parts == Split(qualified_name) IN
    IF Len(parts) = 3 THEN Parsed(NoneStr, parts[1], parts[2], parts[3], NoneStr)
    ELSE IF Len(parts) = 4 THEN
        IF LooksLikeColumn(parts[4])
        THEN Parsed(NoneStr, parts[1], parts[2], parts[3], parts[4])
        ELSE Parsed(parts[1], parts[2], parts[3], parts[4], NoneStr)
    ELSE IF Len(parts) = 5
        THEN Parsed(parts[1], parts[2], parts[3], parts[4], parts[5])
    ELSE NoParse

\* ------------------------------------------------------------------ state
VARIABLES
    bigeye_client,     \* TRUE when the tracker was constructed with a client
    agent_name,        \* the tracker's agent_name
    accessed_assets,   \* the nested dict, flattened in its iteration order
    node_cache,        \* cache key -> node id
    agent_node_id,     \* memoized agent node id, None until resolved
    created_edges,     \* set of <<upstream id, downstream id>>
    op,                \* the tool handler that is running, "idle" when none
    pc,                \* its position
    loc,               \* its local variables
    net,               \* the remote request it awaits, NoReq when none
    result,            \* what the last finished handler returned
    hist,              \* history of the running call (what it asked of the service)
    okSinceClear,      \* history: pairs whose create_edge succeeded since the last clear
    okEver,            \* history: pairs whose create_edge ever succeeded
    remote_edges,      \* the service's graph: the edges at the agent node
    parked,            \* the other coroutine of the event loop, not running now
    budget             \* tool calls that may still be started

vars == <<bigeye_client, agent_name, accessed_assets, node_cache, agent_node_id,
          created_edges, op, pc, loc, net, result, hist, okSinceClear, okEver,
          remote_edges, parked, budget>>

tracker == <<bigeye_client, agent_name, accessed_assets, node_cache,
             agent_node_id, created_edges>>


\* ------------------------------------------------------------------ tracked assets
Star == <<"*">>

Entry(d, s, t, cols) == [database |-> d, schema |-> s, table |-> t, columns |-> cols]

SameTable(e, d, s, t) == e.database = d /\ e.schema = s /\ e.table = t

Max(S) == CHOOSE x \in S : \A y \in S : y <= x

InsertAt(seq, i, x) == SubSeq(seq, 1, i) \o <<x>> \o SubSeq(seq, i + 1, Len(seq))

\* the set of a table already tracked is replaced, not added to
AddAssetReplace(assets, d, s, t, col) ==
    IF \E i \in DOMAIN assets : SameTable(assets[i], d, s, t)
    THEN [i \in DOMAIN assets |->
             IF SameTable(assets[i], d, s, t)
             THEN [assets[i] EXCEPT !.columns = {col}]
             ELSE assets[i]]
    ELSE Append(assets, Entry(d, s, t, {col}))

\* accessed_assets[database][schema][table].add(column) on the nested defaultdict.
\* A new table of a known schema follows that schema's tables, a new schema of a
\* known database follows that database's schemas, a new database comes last:
\* the order in which the three nested for loops visit the tables.
AddAsset(assets, d, s, t, col) ==
    LET same == {i \in DOMAIN assets : SameTable(assets[i], d, s, t)}
        sameSchema == {i \in DOMAIN assets :
                          assets[i].database = d /\ assets[i].schema = s}
        sameDb == {i \in DOMAIN assets : assets[i].database = d}
    IN  IF same # {}
        THEN [i \in DOMAIN assets |->
                 IF i \in same
                 THEN [assets[i] EXCEPT !.columns = @ \cup {col}]
                 ELSE assets[i]]
        ELSE IF sameSchema # {}
        THEN InsertAt(assets, Max(sameSchema), Entry(d, s, t, {col}))
        ELSE IF sameDb # {}
        THEN InsertAt(assets, Max(sameDb), Entry(d, s, t, {col}))
        ELSE Append(assets, Entry(d, s, t, {col}))

\* one iteration of the loop of track_asset_access
TrackOne(assets, name) ==
    LET parsed == parse_qualified_name(name) IN
    IF ~parsed.ok THEN assets
    ELSE LET database == Upper(parsed.database)
             schema == Upper(parsed.schema)
             table == Upper(parsed.table)
             column == IF Truthy(parsed.column) THEN Upper(parsed.column)
                       ELSE NoneStr
         IN  IF Truthy(column)
             THEN AddAsset(assets, database, schema, table, column)
             ELSE AddAsset(assets, database, schema, table, Star)

RECURSIVE TrackUntilInvalid(_, _)
\* the loop ends at the first name that does not parse
TrackUntilInvalid(assets, qualified_names) ==
    IF qualified_names = <<>> THEN assets
    ELSE IF ~parse_qualified_name(Head(qualified_names)).ok THEN assets
    ELSE TrackUntilInvalid(TrackOne(assets, Head(qualified_names)),
                           Tail(qualified_names))

RECURSIVE track_asset_access(_, _)
track_asset_access(assets, qualified_names) ==
    IF qualified_names = <<>> THEN assets
    ELSE track_asset_access(TrackOne(assets, Head(qualified_names)),
                            Tail(qualified_names))

RECURSIVE SumColumns(_)
SumColumns(assets) ==
    IF assets = <<>> THEN 0
    ELSE (IF Star \in Head(assets).columns THEN 0
          ELSE Cardinality(Head(assets).columns)) + SumColumns(Tail(assets))

\* get_tracked_assets: the table list with the wildcard collapsed, and the totals
get_tracked_assets(assets) ==
    [tables |-> [i \in DOMAIN assets |->
                    [assets[i] EXCEPT !.columns =
                        IF Star \in @ THEN {Star} ELSE @]],
     total_tables |-> Len(assets),
     total_columns |-> SumColumns(assets)]

\* cache_key of find_asset_node_id
TableKey(d, s, t) == Upper(Join(<<d, s, t>>))

ColumnKey(d, s, t, c) == Upper(Join(<<d, s, t, c>>))

\* ------------------------------------------------------------------ the remote service
\* The names a caller tracks in this model.
TrackNames ==
    { <<"d", ".", "s", ".", "t">>,
      <<"d", ".", "s", ".", "t", ".", "c">>,
      <<"d", ".", "s", ".", "t", ".", "e">>,
      <<"w", ".", "d", ".", "s", ".", "t", ".", "c">>,
      <<"d", ".", "s", ".", "u">>,
      <<"d", ".", "s">> }

TrackLists == UNION {[1..n -> TrackNames] : n \in 0..MaxTrackLen}

\* More names: a table under a warehouse, a column with an underscore, a column
\* given as "*", six segments.
ParseNames ==
    TrackNames \cup
    { <<"w", ".", "d", ".", "s", ".", "T">>,
      <<"d", ".", "s", ".", "t", ".", "E", "_">>,
      <<"w", ".", "d", ".", "s", ".", "t", ".", "*">>,
      <<"a", ".", "w", ".", "d", ".", "s", ".", "t", ".", "c">> }

NameLists == UNION {[1..n -> ParseNames] : n \in 0..MaxListLen}

AgentNames == {"agentA", "agentB"}

\* The ids the service may answer as nodes[0]["id"] for a search. Two tables can
\* answer the same node: find_table_lineage_node also searches by the bare
\* schema.table and table names.
RemoteNodes(key) ==
    IF key = <<"D", ".", "S", ".", "T">> THEN {"n1"}
    ELSE IF key = <<"D", ".", "S", ".", "T", ".", "C">> THEN {"n2"}
    ELSE IF key = <<"D", ".", "S", ".", "T", ".", "E">> THEN {"n3"}
    ELSE IF key = <<"D", ".", "S", ".", "U">> THEN {"n1", "n4"}
    ELSE {}

AgentNodeOf(name) == IF name = "agentA" THEN "a8" ELSE "a9"

AssetNodeIds == {"n1", "n2", "n3", "n4"}

\* what a search call can do: answer nodes, answer none, answer an error object,
\* answer nothing (None or {}), raise
SearchOutcomes == {"found", "empty", "error", "none", "exc"}

\* create_lineage_node: created; created but no id in the answer; an error whose
\* message says "already exists" with or without DataNodeEntity(<id>); another error;
\* no answer; raise
CreateNodeOutcomes == {"ok", "noid", "exists_entity", "exists", "error", "none", "exc"}

\* create_lineage_edge, delete_lineage_edge
WriteOutcomes == {"ok", "error", "none", "exc"}

NoReq == [call |-> "none", arg |-> NoneStr]

Req(call, arg) == [call |-> call, arg |-> arg]


\* ------------------------------------------------------------------ results, locals
\* A returned dict: keys names the keys it holds; a key it does not hold keeps the
\* default below.
NoResult ==
    [op |-> "none", keys |-> {}, success |-> FALSE, error |-> None,
     edges_created |-> 0, errors |-> <<>>, assets_not_in_catalog |-> <<>>,
     assets_tracked |-> <<>>, assets_cleared |-> FALSE,
     edges_deleted |-> 0, agent_edges_checked |-> 0, total_edges_returned |-> 0,
     retention_days |-> 0, cutoff_date |-> 0]

Failure(o, msg) ==
    [NoResult EXCEPT !.op = o, !.keys = {"success", "error"}, !.error = msg]

NoCreatedAt == [form |-> "absent", t |-> 0]

NoEdge == [id |-> 0, upstream_node_id |-> None, downstream_node_id |-> None,
           created_at |-> NoCreatedAt]

InitLoc ==
    [clear_after_commit |-> FALSE, retention_days |-> 0, cutoff |-> 0,
     ret |-> "none", agent_id |-> None,
     ti |-> 0, colsLeft |-> {}, column |-> NoneStr, site |-> "none",
     key |-> NoneStr, node_id |-> None,
     edges_created |-> 0, errors |-> <<>>, assets_not_in_catalog |-> <<>>,
     total |-> 0, ei |-> 0, edge |-> NoEdge, verdict |-> "none",
     edges_deleted |-> 0, agent_edges_checked |-> 0,
     entered |-> <<>>, orphan |-> FALSE, kept |-> <<>>, columns |-> {}]

\* What the running call has asked of the service and been answered:
\* calls: the client methods it called; attempted: the cache keys
\* find_asset_node_id was called for; missed: those it returned None for;
\* edges: the create_edge requests answered, in order, each with its pair, its
\* place in the loop and whether _create_edge returned True;
\* deletes: the ids of the edges it asked to delete; startAssets, startCache,
\* startEdges, startOk: accessed_assets, node_cache, created_edges and
\* okSinceClear as the call began; names: the qualified_names it was given;
\* trail: the answers the running ensure_agent_node call has had, in order, each
\* with the await it answered (kept until the caller goes on); deleted: the ids
\* of the edges whose delete_edge request succeeded; seen: the ends of the edges
\* the loop of cleanup_old_edges has read; id: the number of the call; with: the
\* number of the call that was suspended as this one began, 0 when none.
InitHist ==
    [calls |-> {}, attempted |-> {}, missed |-> {}, edges |-> <<>>, deletes |-> {},
     startAssets |-> <<>>, startCache |-> <<>>, startEdges |-> {}, startOk |-> {},
     names |-> <<>>, trail |-> <<>>, deleted |-> {}, seen |-> {},
     id |-> 0, with |-> 0]

StartHist ==
    [InitHist EXCEPT !.startAssets = accessed_assets, !.startCache = node_cache,
                     !.startEdges = created_edges, !.startOk = okSinceClear,
                     !.id = budget,
                     !.with = IF parked.op = "idle" THEN 0 ELSE parked.hist.id]

\* A coroutine of the event loop: the handler, its position, its locals, the
\* request it awaits and its history.
InitParked ==
    [op |-> "idle", pc |-> "idle", loc |-> InitLoc, net |-> NoReq, hist |-> InitHist]

Called(h, call) == [h EXCEPT !.calls = @ \cup {call}]

\* the await at pc was answered with outcome o
Answer(h, o) == [h EXCEPT !.trail = Append(@, [at |-> pc, o |-> o])]

\* ensure_agent_node has returned and its caller goes on
Forget(h) == [h EXCEPT !.trail = <<>>]

\* ------------------------------------------------------------------ Init
InitTracker ==
    /\ bigeye_client \in BOOLEAN
    /\ agent_name = "agentA"
    /\ accessed_assets = <<>>
    /\ node_cache = <<>>
    /\ agent_node_id = None
    /\ created_edges = {}
    /\ op = "idle"
    /\ pc = "idle"
    /\ loc = InitLoc
    /\ net = NoReq
    /\ result = NoResult
    /\ hist = InitHist
    /\ okSinceClear = {}
    /\ okEver = {}
    /\ remote_edges = {}
    /\ parked = InitParked

Init == InitTracker /\ budget = MaxOps

CanStart == op = "idle" /\ budget > 0

\* ------------------------------------------------------------------ track, clear
\* server.py lineage_track_data_access
lineage_track_data_access(qualified_names, name) ==
    /\ CanStart
    /\ budget' = budget - 1
    /\ agent_name' = IF name # None THEN name ELSE agent_name
    /\ accessed_assets' = track_asset_access(accessed_assets, qualified_names)
    /\ result' = [NoResult EXCEPT !.op = "track", !.success = TRUE,
                     !.keys = {"success", "agent_name", "assets_tracked", "message"},
                     !.assets_tracked = get_tracked_assets(accessed_assets')]
    /\ hist' = [StartHist EXCEPT !.names = qualified_names]
    /\ UNCHANGED <<bigeye_client, node_cache, agent_node_id, created_edges,
                   op, pc, loc, net, okSinceClear, okEver, remote_edges, parked>>

\* self.accessed_assets.clear() empties the outer dict only: the loops of a
\* suspended create_lineage_edges go on over the inner dicts they hold, which
\* later tracking no longer reaches
Orphaned(co) ==
    IF co.op = "commit" /\ co.loc.ti >= 1 /\ ~co.loc.orphan
    THEN [co EXCEPT !.loc.orphan = TRUE, !.loc.kept = accessed_assets]
    ELSE co

\* only the tracked assets are emptied
clear_accessed_assets_only ==
    /\ accessed_assets' = <<>>
    /\ parked' = Orphaned(parked)
    /\ UNCHANGED <<created_edges, okSinceClear>>

\* AgentLineageTracker.clear_tracked_assets: both are emptied
clear_tracked_assets ==
    /\ accessed_assets' = <<>>
    /\ created_edges' = {}
    /\ okSinceClear' = {}
    /\ parked' = Orphaned(parked)

\* server.py lineage_clear_tracked_assets
lineage_clear_tracked_assets ==
    /\ CanStart
    /\ budget' = budget - 1
    /\ clear_tracked_assets
    /\ result' = [NoResult EXCEPT !.op = "clear", !.success = TRUE,
                     !.keys = {"success", "message", "agent_name"}]
    /\ hist' = InitHist
    /\ UNCHANGED <<bigeye_client, agent_name, node_cache, agent_node_id,
                   op, pc, loc, net, okEver, remote_edges>>


\* ------------------------------------------------------------------ ensure_agent_node
\* ensure_agent_node returns v to the coroutine that awaits it
EnsureReturns(v) ==
    /\ loc' = [loc EXCEPT !.agent_id = v]
    /\ pc' = "ensured"
    /\ net' = NoReq

\* the memo test of line 184 left out
MemoizedNever(id) == FALSE

\* line 184: if self.agent_node_id
Memoized(id) == id # None

\* any failure of create_lineage_node taken for 'already exists'
AlreadyExistsAny(o) == TRUE

\* line 219: "already exists" in error_msg
AlreadyExists(o) == o \in {"exists_entity", "exists"}

\* lines 222-223: the message carries DataNodeEntity(<id>)
HasEntityId(o) == o = "exists_entity"

\* lines 180-193: no client, the memoized id, or the typed search by name
EnsureAgentNode ==
    /\ pc = "ensure"
    /\ IF ~bigeye_client
       THEN EnsureReturns(None) /\ hist' = hist
       ELSE IF Memoized(agent_node_id)
       THEN EnsureReturns(agent_node_id) /\ hist' = hist
       ELSE /\ net' = Req("find_lineage_node_by_name", <<agent_name, "typed">>)
            /\ hist' = Called(hist, "find_lineage_node_by_name")
            /\ pc' = "await_search"
            /\ loc' = loc
    /\ UNCHANGED <<tracker, op, result, okSinceClear, okEver, remote_edges, parked, budget>>

\* lines 195-210: the typed search answers
AgentSearchReturns(o) ==
    /\ pc = "await_search"
    /\ IF o = "found"
       THEN /\ agent_node_id' = AgentNodeOf(agent_name)
            /\ EnsureReturns(agent_node_id')
            /\ hist' = Answer(hist, o)
       ELSE IF o = "exc"
       THEN /\ agent_node_id' = agent_node_id
            /\ EnsureReturns(None)
            /\ hist' = Answer(hist, o)
       ELSE /\ agent_node_id' = agent_node_id
            /\ net' = Req("create_lineage_node", <<agent_name>>)
            /\ hist' = Called(Answer(hist, o), "create_lineage_node")
            /\ pc' = "await_create"
            /\ loc' = loc
    /\ UNCHANGED <<bigeye_client, agent_name, accessed_assets, node_cache,
                   created_edges, op, result, okSinceClear, okEver, remote_edges, parked, budget>>

\* lines 212-241, 250-255: create_lineage_node answers
AgentCreateReturns(o) ==
    /\ pc = "await_create"
    /\ IF o = "ok"
       THEN /\ agent_node_id' = AgentNodeOf(agent_name)
            /\ EnsureReturns(agent_node_id')
            /\ hist' = Answer(hist, o)
       ELSE IF AlreadyExists(o) /\ HasEntityId(o)
       THEN /\ agent_node_id' = agent_node_id
            /\ net' = Req("get_lineage_node_by_entity_id", <<agent_name>>)
            /\ hist' = Called(Answer(hist, o), "get_lineage_node_by_entity_id")
            /\ pc' = "await_entity"
            /\ loc' = loc
       ELSE IF AlreadyExists(o)
       THEN /\ agent_node_id' = agent_node_id
            /\ net' = Req("find_lineage_node_by_name", <<agent_name, "untyped">>)
            /\ hist' = Called(Answer(hist, o), "find_lineage_node_by_name_untyped")
            /\ pc' = "await_untyped"
            /\ loc' = loc
       ELSE \* "noid" stores create_result.get("id") = None; "none" raises in
            \* create_result.get; "error" has another message; "exc" was raised
            /\ agent_node_id' = agent_node_id
            /\ EnsureReturns(None)
            /\ hist' = Answer(hist, o)
    /\ UNCHANGED <<bigeye_client, agent_name, accessed_assets, node_cache,
                   created_edges, op, result, okSinceClear, okEver, remote_edges, parked, budget>>

\* lines 228-241: get_lineage_node_by_entity_id answers
AgentEntityReturns(o) ==
    /\ pc = "await_entity"
    /\ IF o = "found"
       THEN /\ agent_node_id' = AgentNodeOf(agent_name)
            /\ EnsureReturns(agent_node_id')
            /\ hist' = Answer(hist, o)
       ELSE IF o = "exc"
       THEN /\ agent_node_id' = agent_node_id
            /\ EnsureReturns(None)
            /\ hist' = Answer(hist, o)
       ELSE /\ agent_node_id' = agent_node_id
            /\ net' = Req("find_lineage_node_by_name", <<agent_name, "untyped">>)
            /\ hist' = Called(Answer(hist, o), "find_lineage_node_by_name_untyped")
            /\ pc' = "await_untyped"
            /\ loc' = loc
    /\ UNCHANGED <<bigeye_client, agent_name, accessed_assets, node_cache,
                   created_edges, op, result, okSinceClear, okEver, remote_edges, parked, budget>>

\* lines 243-255: the search without the type filter answers
AgentUntypedReturns(o) ==
    /\ pc = "await_untyped"
    /\ agent_node_id' = IF o = "found" THEN AgentNodeOf(agent_name) ELSE agent_node_id
    /\ EnsureReturns(IF o = "found" THEN agent_node_id' ELSE None)
    /\ hist' = Answer(hist, o)
    /\ UNCHANGED <<bigeye_client, agent_name, accessed_assets, node_cache,
                   created_edges, op, result, okSinceClear, okEver, remote_edges, parked, budget>>


\* ------------------------------------------------------------------ create_lineage_edges
\* the test of line 338 left out
NoAssetsTrackedNever(assets) == FALSE

\* line 338: if not self.accessed_assets
NoAssetsTracked(assets) == assets = <<>>

\* the test of lines 347, 466 left out
AgentUnavailableNever(agent_id) == FALSE

\* lines 347, 466: if not agent_id
AgentUnavailable(agent_id) == agent_id = None

\* the membership test of lines 368, 384, 397 left out
NotYetCreatedAlways(edge_key, edges) == TRUE

\* lines 368, 384, 397: if edge_key not in self.created_edges
NotYetCreated(edge_key, edges) == edge_key \notin edges

\* the add of lines 373, 389, 402 left out
CreatedForgotten(edges, edge_key) == edges

\* lines 373, 389, 402: self.created_edges.add(edge_key)
Created(edges, edge_key) == edges \cup {edge_key}

\* lines 374-375, 390-391: a failed _create_edge is appended to errors for a
\* table and for a column; lines 400-402 have no else branch for the fallback
RecordsFailure(site) == site \in {"table", "column"}

\* no fallback: a column without a node is reported not in the catalog
FallsBackNever(site) == FALSE

\* lines 392-394: a column without a node falls back to its table
FallsBack(site) == site = "column"

\* lines 358-360, 380: the loops run over the dict and set objects themselves,
\* so they see what is tracked while the coroutine is suspended, until a clear
\* detaches the inner dicts and sets from self.accessed_assets
View(l) == IF l.orphan THEN l.kept ELSE accessed_assets

Databases(assets) == {assets[i].database : i \in DOMAIN assets}

\* The next() of a dict or set iterator raises RuntimeError when the size of
\* its dict or set differs from the size at its creation. Every name of
\* TrackNames lies in one database and one schema, so the three dict iterators
\* of lines 358-360 are created together when the loops are entered: the
\* tables dict then holds Len(l.entered) tables.
TablesChanged(l) == Len(View(l)) # Len(l.entered)

\* the outer dict, asked for its next database after the last table
DatabasesChanged(l) ==
    Cardinality(Databases(accessed_assets)) # Cardinality(Databases(l.entered))

\* line 380: the set of the table the column loop runs over
ColumnsChanged(l) == Cardinality(View(l)[l.ti].columns) # Cardinality(l.columns)

\* server.py lines 1838-1842: create_lineage_edges has no try of its own, the
\* RuntimeError reaches the except clause of lineage_commit_agent
HandlerError(o) ==
    [NoResult EXCEPT !.op = o, !.keys = {"error", "message"},
                     !.error = "Error committing lineage"]

\* a failed _create_edge ends the three loops
LoopAfterAbort(l, success) ==
    IF success
    THEN IF l.site = "table" THEN [l EXCEPT !.ti = @ + 1] ELSE l
    ELSE [l EXCEPT !.ti = Len(View(l)) + 1, !.colsLeft = {}]

\* the loop goes on after an asset, whatever happened to it
LoopAfter(l, success) ==
    IF l.site = "table" THEN [l EXCEPT !.ti = @ + 1] ELSE l

PcAfter(site) == IF site = "table" THEN "tables" ELSE "columns"

TableName(e) == Join(<<e.database, e.schema, e.table>>)

ColumnName(e, c) == Join(<<e.database, e.schema, e.table, c>>)

\* server.py lineage_commit_agent calls create_lineage_edges, lines 332-346
lineage_commit_agent(clear_after_commit) ==
    /\ CanStart
    /\ budget' = budget - 1
    /\ op' = "commit"
    /\ hist' = StartHist
    /\ loc' = [InitLoc EXCEPT !.clear_after_commit = clear_after_commit,
                              !.ret = "commit"]
    /\ IF ~bigeye_client
       THEN /\ result' = Failure("commit", "No Bigeye client configured")
            /\ pc' = "handler"
       ELSE IF NoAssetsTracked(accessed_assets)
       THEN /\ result' = [NoResult EXCEPT !.op = "commit", !.success = TRUE,
                             !.keys = {"success", "message", "edges_created"}]
            /\ pc' = "handler"
       ELSE /\ result' = NoResult
            /\ pc' = "ensure"
    /\ UNCHANGED <<tracker, net, okSinceClear, okEver, remote_edges, parked>>

\* lines 347-358: the agent node is back
CommitAfterEnsure ==
    /\ op = "commit"
    /\ pc = "ensured"
    /\ IF AgentUnavailable(loc.agent_id)
       THEN /\ result' = Failure("commit", "Failed to create or find agent node")
            /\ pc' = "handler"
            /\ loc' = loc
       ELSE /\ result' = result
            /\ pc' = "tables"
            /\ loc' = [loc EXCEPT !.ti = 1, !.entered = accessed_assets]
    /\ hist' = Forget(hist)
    /\ UNCHANGED <<tracker, op, net, okSinceClear, okEver, remote_edges, parked, budget>>

\* success whatever the errors list holds
NoErrorsAlways(errors) == TRUE

\* lines 407, 534: "success": len(errors) == 0
NoErrors(errors) == Len(errors) = 0

\* a table counts as table-level only when the marker is its only entry
TableLevelOnlyStar(columns) == columns = {Star}

\* line 363: if "*" in columns
TableLevel(columns) == Star \in columns

\* lines 358-363, 406-413: the next table of the three nested loops, or the result
NextTable ==
    /\ op = "commit"
    /\ pc = "tables"
    /\ IF TablesChanged(loc) \/ (loc.ti > Len(View(loc)) /\ DatabasesChanged(loc))
       THEN /\ result' = HandlerError("commit")
            /\ pc' = "handler"
            /\ loc' = loc
       ELSE IF loc.ti > Len(View(loc))
       THEN /\ result' =
                [NoResult EXCEPT
                    !.op = "commit",
                    !.keys = {"success", "edges_created", "assets_tracked",
                              "assets_not_in_catalog", "errors", "summary"},
                    !.success = NoErrors(loc.errors),
                    !.edges_created = loc.edges_created,
                    !.assets_tracked = get_tracked_assets(accessed_assets),
                    !.assets_not_in_catalog = loc.assets_not_in_catalog,
                    !.errors = loc.errors]
            /\ pc' = "handler"
            /\ loc' = loc
       ELSE LET e == View(loc)[loc.ti] IN
            IF TableLevel(e.columns)
            THEN /\ loc' = [loc EXCEPT !.site = "table", !.column = NoneStr,
                               !.key = TableKey(e.database, e.schema, e.table)]
                 /\ pc' = "find"
                 /\ result' = result
            ELSE /\ loc' = [loc EXCEPT !.colsLeft = e.columns, !.columns = e.columns]
                 /\ pc' = "columns"
                 /\ result' = result
    /\ UNCHANGED <<tracker, op, net, hist, okSinceClear, okEver, remote_edges, parked, budget>>

\* line 380: for column in columns (a set: any order)
NextColumn ==
    /\ op = "commit"
    /\ pc = "columns"
    /\ LET e == View(loc)[loc.ti] IN
       IF ColumnsChanged(loc)
       THEN /\ result' = HandlerError("commit")
            /\ pc' = "handler"
            /\ loc' = loc
       ELSE IF loc.colsLeft = {}
       THEN /\ loc' = [loc EXCEPT !.ti = @ + 1]
            /\ pc' = "tables"
            /\ result' = result
       ELSE \E c \in loc.colsLeft :
              /\ loc' = [loc EXCEPT !.colsLeft = @ \ {c}, !.column = c,
                            !.site = "column",
                            !.key = ColumnKey(e.database, e.schema, e.table, c)]
              /\ pc' = "find"
              /\ result' = result
    /\ UNCHANGED <<tracker, op, net, hist, okSinceClear, okEver, remote_edges,
                   parked, budget>>

\* the pair with the agent first
EdgeKeyReversed(node_id, agent_id) == <<agent_id, node_id>>

\* lines 367, 383, 396: edge_key = (node_id, agent_id), the arguments of
\* _create_edge(node_id, agent_id, ...) in the same order (upstream, downstream)
EdgeKey(node_id, agent_id) == <<node_id, agent_id>>

\* the cache test of line 281 left out
CacheHitNever(cache_key, cache) == FALSE

\* line 281: if cache_key in self.node_cache
CacheHit(cache_key, cache) == cache_key \in DOMAIN cache

\* find_asset_node_id lines 269-303: no client, a cache hit, or the search
FindAssetNodeId ==
    /\ op = "commit"
    /\ pc = "find"
    /\ IF ~bigeye_client
       THEN /\ loc' = [loc EXCEPT !.node_id = None]
            /\ pc' = "found"
            /\ net' = net
            /\ hist' = [hist EXCEPT !.attempted = @ \cup {loc.key},
                                    !.missed = @ \cup {loc.key}]
       ELSE IF CacheHit(loc.key, node_cache)
       THEN /\ loc' = [loc EXCEPT !.node_id = node_cache[loc.key]]
            /\ pc' = "found"
            /\ net' = net
            /\ hist' = [hist EXCEPT !.attempted = @ \cup {loc.key}]
       ELSE LET call == IF loc.site = "column" THEN "find_column_lineage_node"
                        ELSE "find_table_lineage_node" IN
            /\ net' = Req(call, loc.key)
            /\ hist' = [Called(hist, call) EXCEPT !.attempted = @ \cup {loc.key}]
            /\ pc' = "await_find"
            /\ loc' = loc
    /\ UNCHANGED <<tracker, op, result, okSinceClear, okEver, remote_edges, parked, budget>>

\* find_asset_node_id lines 305-321: the search answers
FindAssetNodeReturns(o, id) ==
    /\ op = "commit"
    /\ pc = "await_find"
    /\ IF o = "found"
       THEN /\ id \in RemoteNodes(loc.key)
            /\ node_cache' = (loc.key :> id) @@ node_cache
            /\ loc' = [loc EXCEPT !.node_id = id]
            /\ hist' = hist
       ELSE /\ id = None
            /\ node_cache' = node_cache
            /\ loc' = [loc EXCEPT !.node_id = None]
            /\ hist' = [hist EXCEPT !.missed = @ \cup {loc.key}]
    /\ pc' = "found"
    /\ net' = NoReq
    /\ UNCHANGED <<bigeye_client, agent_name, accessed_assets, agent_node_id,
                   created_edges, op, result, okSinceClear, okEver, remote_edges, parked, budget>>

\* lines 366-370, 376-377, 382-386, 392-399, 403-404: find_asset_node_id is back
AfterFind ==
    /\ op = "commit"
    /\ pc = "found"
    /\ LET e == View(loc)[loc.ti]
           edge_key == EdgeKey(loc.node_id, loc.agent_id)
       IN  IF loc.node_id # None
           THEN IF NotYetCreated(edge_key, created_edges)
                THEN /\ net' = Req("create_lineage_edge", edge_key)
                     /\ hist' = Called(hist, "create_lineage_edge")
                     /\ pc' = "await_edge"
                     /\ loc' = loc
                ELSE /\ net' = net
                     /\ hist' = hist
                     /\ pc' = PcAfter(loc.site)
                     /\ loc' = LoopAfter(loc, TRUE)
           ELSE IF FallsBack(loc.site)
           THEN /\ net' = net
                /\ hist' = hist
                /\ pc' = "find"
                /\ loc' = [loc EXCEPT !.site = "fallback",
                              !.key = TableKey(e.database, e.schema, e.table)]
           ELSE /\ net' = net
                /\ hist' = hist
                /\ pc' = PcAfter(loc.site)
                /\ loc' = [LoopAfter(loc, TRUE) EXCEPT !.assets_not_in_catalog =
                              Append(@, IF loc.site = "table" THEN TableName(e)
                                        ELSE ColumnName(e, loc.column))]
    /\ UNCHANGED <<tracker, op, result, okSinceClear, okEver, remote_edges, parked, budget>>

\* _create_edge lines 436-445 and lines 371-375, 387-391, 400-402: create_edge answers
CreateEdgeReturns(o) ==
    /\ op = "commit"
    /\ pc = "await_edge"
    /\ LET e == View(loc)[loc.ti]
           edge_key == net.arg
           success == (o = "ok")
           name == IF loc.site = "column" THEN ColumnName(e, loc.column)
                   ELSE TableName(e)
           after == LoopAfter(loc, success)
       IN  /\ IF success
              THEN /\ created_edges' = Created(created_edges, edge_key)
                   /\ okSinceClear' = okSinceClear \cup {edge_key}
                   /\ okEver' = okEver \cup {edge_key}
                   /\ remote_edges' = remote_edges \cup {edge_key}
                   /\ loc' = [after EXCEPT !.edges_created = @ + 1]
              ELSE /\ UNCHANGED <<created_edges, okSinceClear, okEver, remote_edges>>
                   /\ loc' = IF RecordsFailure(loc.site)
                             THEN [after EXCEPT !.errors =
                                      Append(@, <<loc.site, name>>)]
                             ELSE after
           /\ hist' = [hist EXCEPT !.edges =
                          Append(@, [pair |-> edge_key, site |-> loc.site,
                                     ok |-> success])]
    /\ pc' = PcAfter(loc.site)
    /\ net' = NoReq
    /\ UNCHANGED <<bigeye_client, agent_name, accessed_assets, node_cache,
                   agent_node_id, op, result, parked, budget>>

\* the success test of line 1831 left out
ClearsAfterAlways(clear_after_commit, res) == clear_after_commit

\* server.py line 1831: if clear_after_commit and result.get("success", False)
ClearsAfter(clear_after_commit, res) == clear_after_commit /\ res.success

\* server.py lineage_commit_agent lines 1831-1836: clear after a successful commit
CommitHandlerReturns ==
    /\ op = "commit"
    /\ pc = "handler"
    /\ IF ClearsAfter(loc.clear_after_commit, result)
       THEN /\ clear_tracked_assets
            /\ result' = [result EXCEPT !.assets_cleared = TRUE,
                                        !.keys = @ \cup {"assets_cleared"}]
       ELSE UNCHANGED <<accessed_assets, created_edges, okSinceClear, result, parked>>
    /\ op' = "idle"
    /\ pc' = "idle"
    /\ loc' = InitLoc
    /\ UNCHANGED <<bigeye_client, agent_name, node_cache, agent_node_id,
                   net, hist, okEver, remote_edges, budget>>


\* ------------------------------------------------------------------ cleanup_old_edges
Times == 0..MaxTime

\* datetime.now(): creation times lie before, at and after it
Clock == {MaxTime - 1}

\* The created_at strings of an edge: absent or empty; not an ISO date; an ISO
\* date and time without offset, with a trailing Z, with a +hh:mm offset.
\* t is the instant (in days) the string denotes.
CreatedAts ==
    {NoCreatedAt, [form |-> "bad", t |-> 0]}
        \cup [form : {"naive", "Z", "offset"}, t : Times]

\* the edge dicts the service may return to the agent node agent_id, id apart:
\* each end is the agent node or another node
EdgeDicts(agent_id) ==
    [id : {0}, upstream_node_id : {agent_id, "n1"},
     downstream_node_id : {agent_id, "n1"}, created_at : CreatedAts]

\* the two ends of an edge dict
Ends(edge) == <<edge.upstream_node_id, edge.downstream_node_id>>

\* the edges of the service's graph at node agent_id
RemoteAt(agent_id) ==
    {pair \in remote_edges : pair[1] = agent_id \/ pair[2] = agent_id}

\* The edge dicts the service returns when the agent's edges are those this
\* tracker created and has not deleted: each of them once, in any order.
OwnEdgeDicts(agent_id) ==
    {d \in [id : {0}, upstream_node_id : AssetNodeIds,
            downstream_node_id : {agent_id}, created_at : CreatedAts] :
        Ends(d) \in RemoteAt(agent_id) \ hist.seen}

\* created_at.replace("Z", "+00:00")
ReplaceZ(created_at) ==
    IF created_at.form = "Z" THEN [created_at EXCEPT !.form = "offset"]
    ELSE created_at

\* datetime.fromisoformat: a naive datetime, an aware one, or ValueError
FromIsoformat(s) ==
    IF s.form = "naive" THEN [ok |-> TRUE, aware |-> FALSE, t |-> s.t]
    ELSE IF s.form \in {"Z", "offset"} THEN [ok |-> TRUE, aware |-> TRUE, t |-> s.t]
    ELSE [ok |-> FALSE, aware |-> FALSE, t |-> 0]

\* datetime.now() - timedelta(days=retention_days): a naive datetime
CutoffDate(now, retention_days) == [ok |-> TRUE, aware |-> FALSE, t |-> now - retention_days]

\* a < b on datetimes: TypeError between a naive and an aware one
Comparable(a, b) == a.aware = b.aware

\* the agent check of line 502 left out
InvolvesAgentAlways(edge, agent_id) == TRUE

\* line 502: the edge is skipped when this is false
InvolvesAgent(edge, agent_id) ==
    ~(edge.upstream_node_id # agent_id /\ edge.downstream_node_id # agent_id)

\* lines 497-529 for one edge, up to the delete request: what becomes of the edge
Verdict(edge, agent_id, cutoff_date) ==
    IF ~InvolvesAgent(edge, agent_id) THEN "skip"
    ELSE IF edge.created_at.form = "absent" THEN "no_created_at"
    ELSE LET edge_date == FromIsoformat(ReplaceZ(edge.created_at)) IN
         IF ~edge_date.ok THEN "value_error"
         ELSE IF ~Comparable(edge_date, cutoff_date) THEN "type_error"
         ELSE IF edge_date.t < cutoff_date.t THEN "delete"
         ELSE "keep"

\* the exception of one edge dropped without an entry
EdgeRaisesNever(verdict) == FALSE

\* lines 510-511, 528-529: fromisoformat or the comparison raised, the except
\* clause of the loop body appends one entry to errors
EdgeRaises(verdict) == verdict \in {"value_error", "type_error"}

\* server.py lineage_cleanup_agent_edges calls cleanup_old_edges, lines 458-465
lineage_cleanup_agent_edges(retention_days) ==
    /\ CanStart
    /\ budget' = budget - 1
    /\ hist' = StartHist
    /\ op' = "cleanup"
    /\ loc' = [InitLoc EXCEPT !.retention_days = retention_days, !.ret = "cleanup"]
    /\ IF ~bigeye_client
       THEN /\ result' = Failure("cleanup", "No Bigeye client configured")
            /\ pc' = "handler"
       ELSE /\ result' = NoResult
            /\ pc' = "ensure"
    /\ UNCHANGED <<tracker, net, okSinceClear, okEver, remote_edges, parked>>

\* lines 466-483: the agent node is back; the cutoff; get_lineage_edges_for_node
CleanupAfterEnsure(now) ==
    /\ op = "cleanup"
    /\ pc = "ensured"
    /\ IF AgentUnavailable(loc.agent_id)
       THEN /\ result' = Failure("cleanup", "Failed to find agent node")
            /\ pc' = "handler"
            /\ hist' = Forget(hist)
            /\ UNCHANGED <<loc, net>>
       ELSE /\ loc' = [loc EXCEPT !.cutoff = CutoffDate(now, loc.retention_days).t]
            /\ net' = Req("get_lineage_edges_for_node", <<loc.agent_id>>)
            /\ hist' = Called(Forget(hist), "get_lineage_edges_for_node")
            /\ pc' = "await_edges"
            /\ result' = result
    /\ UNCHANGED <<tracker, op, okSinceClear, okEver, remote_edges, parked, budget>>

\* lines 485-494, 543-548: the edges answer. The loop reads each edge of the
\* answered list once, so the model draws an edge when the loop reaches it.
GetEdgesReturns(o, n) ==
    /\ op = "cleanup"
    /\ pc = "await_edges"
    /\ net' = NoReq
    /\ hist' = hist
    /\ IF o = "ok"
       THEN /\ loc' = [loc EXCEPT !.total = n, !.ei = 0]
            /\ pc' = "edges"
            /\ result' = result
       ELSE /\ n = 0
            /\ result' = Failure("cleanup", IF o = "exc" THEN "exception"
                                            ELSE "Failed to get edges")
            /\ pc' = "handler"
            /\ loc' = loc
    /\ UNCHANGED <<tracker, op, okSinceClear, okEver, remote_edges, parked, budget>>

\* lines 496-521, 528-529: one edge of the list, up to its delete request
ExamineEdge(dict) ==
    /\ op = "cleanup"
    /\ pc = "edges"
    /\ loc.ei < loc.total
    /\ LET edge == [dict EXCEPT !.id = loc.ei + 1]
           v == Verdict(edge, loc.agent_id,
                        [ok |-> TRUE, aware |-> FALSE, t |-> loc.cutoff])
           checked == IF v = "skip" THEN loc.agent_edges_checked
                      ELSE loc.agent_edges_checked + 1
           errs == IF EdgeRaises(v)
                   THEN Append(loc.errors, <<"processing", edge.id>>)
                   ELSE loc.errors
       IN  /\ loc' = [loc EXCEPT !.ei = @ + 1, !.edge = edge, !.verdict = v,
                                 !.agent_edges_checked = checked, !.errors = errs]
           /\ IF v = "delete"
              THEN /\ net' = Req("delete_lineage_edge", <<edge.id>>)
                   /\ hist' = [Called(hist, "delete_lineage_edge") EXCEPT
                                  !.deletes = @ \cup {edge.id},
                                  !.seen = @ \cup {Ends(edge)}]
                   /\ pc' = "await_delete"
              ELSE /\ hist' = [hist EXCEPT !.seen = @ \cup {Ends(edge)}]
                   /\ UNCHANGED <<net, pc>>
    /\ UNCHANGED <<tracker, op, result, okSinceClear, okEver, remote_edges, parked, budget>>

\* lines 523-529: delete_lineage_edge answers
DeleteEdgeReturns(o) ==
    /\ op = "cleanup"
    /\ pc = "await_delete"
    /\ net' = NoReq
    /\ hist' = IF o = "ok" THEN [hist EXCEPT !.deleted = @ \cup {loc.edge.id}]
               ELSE hist
    /\ pc' = "edges"
    /\ loc' = IF o = "ok" THEN [loc EXCEPT !.edges_deleted = @ + 1]
              ELSE [loc EXCEPT !.errors =
                       Append(@, <<IF o = "exc" THEN "processing" ELSE "delete",
                                   loc.edge.id>>)]
    /\ remote_edges' =
          IF o = "ok"
          THEN remote_edges \ {Ends(loc.edge)}
          ELSE remote_edges
    /\ UNCHANGED <<tracker, op, result, okSinceClear, okEver, parked, budget>>

\* lines 531-541: the result
CleanupReturns ==
    /\ op = "cleanup"
    /\ pc = "edges"
    /\ loc.ei = loc.total
    /\ result' = [NoResult EXCEPT
                     !.op = "cleanup",
                     !.keys = {"success", "edges_deleted", "agent_edges_checked",
                               "total_edges_returned", "retention_days",
                               "cutoff_date", "errors"},
                     !.success = NoErrors(loc.errors),
                     !.edges_deleted = loc.edges_deleted,
                     !.agent_edges_checked = loc.agent_edges_checked,
                     !.total_edges_returned = loc.total,
                     !.retention_days = loc.retention_days,
                     !.cutoff_date = loc.cutoff,
                     !.errors = loc.errors]
    /\ pc' = "handler"
    /\ UNCHANGED <<tracker, op, loc, net, hist, okSinceClear, okEver, remote_edges, parked, budget>>

\* server.py lineage_cleanup_agent_edges lines 1908-1909: the result is handed on
CleanupHandlerReturns ==
    /\ op = "cleanup"
    /\ pc = "handler"
    /\ op' = "idle"
    /\ pc' = "idle"
    /\ loc' = InitLoc
    /\ UNCHANGED <<tracker, net, result, hist, okSinceClear, okEver, remote_edges, parked, budget>>

\* ------------------------------------------------------------------ exceptions
\* no except clause anywhere
CaughtNever(site) == FALSE

\* Every await of the four coroutines lies in a try whose except Exception ends
\* in a return: ensure_agent_node 187/250-255, find_asset_node_id 288/319-321,
\* _create_edge 427/443-445, cleanup_old_edges 472/543-548 and, per edge, 497/528-529.
Caught(site) == TRUE

\* an exception leaves the coroutine and reaches its caller
Raise ==
    /\ pc' = "raised"
    /\ UNCHANGED <<tracker, op, loc, net, result, hist, okSinceClear, okEver, remote_edges, parked, budget>>

\* the await at site is answered with outcome o: action A handles it, unless o
\* is an exception no except clause catches
Answered(o, site, A) ==
    IF o = "exc" /\ ~Caught(site) THEN pc = site /\ Raise ELSE A

\* ------------------------------------------------------------------ the event loop
\* the positions at which a coroutine is suspended on a remote call
AwaitPcs ==
    {"await_search", "await_create", "await_entity", "await_untyped",
     "await_find", "await_edge", "await_edges", "await_delete"}

\* The event loop runs one coroutine at a time and switches only where the
\* running one awaits a remote call or has returned: the running coroutine is
\* set aside and the other one runs, a new tool call or a suspended one.
Switch ==
    /\ \/ pc \in AwaitPcs /\ (parked.pc \in AwaitPcs \/ budget > 0)
       \/ pc = "idle" /\ parked.pc \in AwaitPcs
    /\ parked' = [op |-> op, pc |-> pc, loc |-> loc, net |-> net, hist |-> hist]
    /\ op' = parked.op
    /\ pc' = parked.pc
    /\ loc' = parked.loc
    /\ net' = parked.net
    /\ hist' = parked.hist
    /\ UNCHANGED <<tracker, result, okSinceClear, okEver, remote_edges, budget>>

\* ------------------------------------------------------------------ specifications
\* tracking with and without an agent_name
TrackSteps ==
    \/ \E names \in TrackLists, name \in AgentNames \cup {None} :
          lineage_track_data_access(names, name)
    \/ lineage_clear_tracked_assets

\* tracking under the default agent name
TrackListSteps ==
    \/ \E names \in TrackLists : lineage_track_data_access(names, None)
    \/ lineage_clear_tracked_assets

\* tracking lists of names of every shape
TrackWideSteps ==
    \/ \E names \in NameLists : lineage_track_data_access(names, None)
    \/ lineage_clear_tracked_assets

EnsureSteps ==
    \/ EnsureAgentNode
    \/ \E o \in SearchOutcomes : Answered(o, "await_search", AgentSearchReturns(o))
    \/ \E o \in CreateNodeOutcomes : Answered(o, "await_create", AgentCreateReturns(o))
    \/ \E o \in SearchOutcomes : Answered(o, "await_entity", AgentEntityReturns(o))
    \/ \E o \in SearchOutcomes : Answered(o, "await_untyped", AgentUntypedReturns(o))

CommitSteps ==
    \/ \E c \in BOOLEAN : lineage_commit_agent(c)
    \/ CommitAfterEnsure
    \/ NextTable
    \/ NextColumn
    \/ FindAssetNodeId
    \/ \E o \in SearchOutcomes, id \in AssetNodeIds \cup {None} :
          Answered(o, "await_find", FindAssetNodeReturns(o, id))
    \/ AfterFind
    \/ \E o \in WriteOutcomes : Answered(o, "await_edge", CreateEdgeReturns(o))
    \/ CommitHandlerReturns

CleanupSteps ==
    \/ \E r \in 0..MaxRetention : lineage_cleanup_agent_edges(r)
    \/ \E now \in Clock : CleanupAfterEnsure(now)
    \/ \E o \in WriteOutcomes, n \in 0..MaxEdges :
          Answered(o, "await_edges", GetEdgesReturns(o, n))
    \/ \E d \in EdgeDicts(loc.agent_id) : ExamineEdge(d)
    \/ \E o \in WriteOutcomes : Answered(o, "await_delete", DeleteEdgeReturns(o))
    \/ CleanupReturns
    \/ CleanupHandlerReturns

\* the retention sweep when only this tracker writes the agent's edges
OwnCleanupSteps ==
    \/ \E r \in 0..MaxRetention : lineage_cleanup_agent_edges(r)
    \/ \E now \in Clock : CleanupAfterEnsure(now)
    \/ \E o \in WriteOutcomes :
          Answered(o, "await_edges",
                   GetEdgesReturns(o, IF o = "ok"
                                      THEN Cardinality(RemoteAt(loc.agent_id))
                                      ELSE 0))
    \/ \E d \in OwnEdgeDicts(loc.agent_id) : ExamineEdge(d)
    \/ \E o \in WriteOutcomes : Answered(o, "await_delete", DeleteEdgeReturns(o))
    \/ CleanupReturns
    \/ CleanupHandlerReturns

\* every tool of the tracker, one call at a time
Next == TrackSteps \/ EnsureSteps \/ CommitSteps \/ CleanupSteps

Spec == Init /\ [][Next]_vars

\* tracking and committing, over more calls
InitCommit == InitTracker /\ budget = MaxCommitOps

NextCommit == TrackListSteps \/ EnsureSteps \/ CommitSteps

SpecCommit == InitCommit /\ [][NextCommit]_vars

\* the retention sweep alone
InitCleanup == InitTracker /\ budget = MaxCleanups

NextCleanup == EnsureSteps \/ CleanupSteps

SpecCleanup == InitCleanup /\ [][NextCleanup]_vars

\* Every tool under the default agent name, each step taken in the end: the event loop resumes a coroutine
\* whose await is answered, and the client answers every request, by a response,
\* an error or its timeout (bigeye_api.py make_request).
NextLive == TrackListSteps \/ EnsureSteps \/ CommitSteps \/ CleanupSteps

SpecLive == Init /\ [][NextLive]_vars /\ WF_vars(NextLive)

\* a session of one agent: tracking, renaming, committing and sweeping, the
\* agent's edges in the service being those this tracker created
InitSession == InitTracker /\ budget = MaxSessionOps

NextSession == TrackSteps \/ EnsureSteps \/ CommitSteps \/ OwnCleanupSteps

SpecSession == InitSession /\ [][NextSession]_vars

\* two tool calls at a time: tracking and committing, the event loop switching
\* between two coroutines at their awaits
InitConcurrent == InitTracker /\ budget = MaxConcurrentOps

NextConcurrent == TrackListSteps \/ EnsureSteps \/ CommitSteps \/ Switch

SpecConcurrent == InitConcurrent /\ [][NextConcurrent]_vars

\* tracking and clearing alone, over lists of names of every shape
InitTrack == InitTracker /\ budget = MaxTrackOps

NextTrack == TrackWideSteps

SpecTrack == InitTrack /\ [][NextTrack]_vars


\* ------------------------------------------------------------------ claims
IssuesCreateEdge == net.call = "none" /\ net'.call = "create_lineage_edge"

OkCount(edges) == Cardinality({i \in DOMAIN edges : edges[i].ok})

RequestsFor(edges, pair) == Cardinality({i \in DOMAIN edges : edges[i].pair = pair})

\* C1: whenever cleanup_old_edges awaits a delete_edge request, the request is
\* for the edge it has just examined and that edge has the agent node as its
\* upstream or its downstream end, whatever its creation time and retention_days.
C1_DeletesOnlyAgentEdges ==
    net.call = "delete_lineage_edge" =>
        /\ net.arg = <<loc.edge.id>>
        /\ \/ loc.edge.upstream_node_id = loc.agent_id
           \/ loc.edge.downstream_node_id = loc.agent_id

\* an edge between two other nodes, older than the cutoff, was examined and no
\* delete was asked for it
C1_Witness ==
    /\ op = "cleanup"
    /\ pc = "edges"
    /\ loc.edge.id = loc.ei
    /\ loc.edge.upstream_node_id # loc.agent_id
    /\ loc.edge.downstream_node_id # loc.agent_id
    /\ loc.edge.created_at.form = "naive"
    /\ loc.edge.created_at.t < loc.cutoff
    /\ loc.edge.id \notin hist.deletes

\* C2 as claimed: no create_edge request is ever issued for a pair for which a
\* create_edge request of this tracker succeeded before.
C2_NeverRequestedAgain ==
    [][IssuesCreateEdge => net'.arg \notin okEver]_vars

\* C2, amended: no create_edge request is issued for a pair for which a
\* create_edge request succeeded since the tracked assets were last cleared.
C2_NotRequestedAgainSinceClear ==
    [][IssuesCreateEdge => net'.arg \notin okSinceClear]_vars

\* a commit found the node of a tracked asset, its pair had been created by an
\* earlier commit, and it went on without a request
C2_Witness ==
    /\ op = "commit"
    /\ pc \in {"tables", "columns"}
    /\ loc.node_id # None
    /\ <<loc.node_id, loc.agent_id>> \in hist.startOk
    /\ hist.edges = <<>>
    /\ net.call = "none"

\* C3: a create_lineage_edges call that follows another one without a clear in
\* between issues no create_edge request for a pair whose creation succeeded
\* before it began, and its edges_created counts only the requests that
\* succeeded during it, none of them for such a pair.
C3_SecondCallSkipsCreated ==
    op = "commit" =>
        /\ net.call = "create_lineage_edge" => net.arg \notin hist.startOk
        /\ \A i \in DOMAIN hist.edges : hist.edges[i].pair \notin hist.startOk
        /\ loc.edges_created = OkCount(hist.edges)
        /\ (pc = "handler" /\ "edges_created" \in result.keys) =>
               result.edges_created = OkCount(hist.edges)

\* a second call has ended: it looked up an asset whose pair the first call had
\* created, and counted no edge
C3_Witness ==
    /\ op = "commit"
    /\ pc = "handler"
    /\ "errors" \in result.keys
    /\ result.edges_created = 0
    /\ hist.startOk # {}
    /\ hist.startAssets # <<>>
    /\ \E k \in hist.attempted :
          /\ k \in DOMAIN node_cache
          /\ <<node_cache[k], loc.agent_id>> \in hist.startOk


InList(x, list) == \E i \in DOMAIN list : list[i] = x

\* create_lineage_edges has returned the result of its loops
CommitDone == op = "commit" /\ pc = "handler" /\ "errors" \in result.keys

\* In the call that has just returned, every column tracked for table e failed
\* to resolve, the table resolves (its node is in NodeCache and no lookup of it
\* failed), and every create_edge request for the table's node succeeded.
OnlyTableResolves(e) ==
    LET tk == TableKey(e.database, e.schema, e.table) IN
    /\ Star \notin e.columns
    /\ e.columns # {}
    /\ \A c \in e.columns :
          ColumnKey(e.database, e.schema, e.table, c) \in hist.missed
    /\ tk \in DOMAIN node_cache
    /\ tk \notin hist.missed
    /\ \A i \in DOMAIN hist.edges :
          hist.edges[i].pair = <<node_cache[tk], loc.agent_id>> => hist.edges[i].ok

\* C4: when a create_lineage_edges call that began with an empty CreatedEdgeSet
\* returns, a table without the wildcard whose tracked columns all failed to
\* resolve while the table resolved and edge creation succeeded has had exactly
\* one create_edge request (table node to agent node), that one is counted, and
\* none of its columns is in assets_not_in_catalog.
C4_TableFallbackOnce ==
    (CommitDone /\ hist.startEdges = {}) =>
        \A n \in DOMAIN accessed_assets :
            LET e == accessed_assets[n]
                pair == <<node_cache[TableKey(e.database, e.schema, e.table)],
                          loc.agent_id>>
            IN  OnlyTableResolves(e) =>
                    /\ RequestsFor(hist.edges, pair) = 1
                    /\ pair \in created_edges
                    /\ result.edges_created >= 1
                    /\ \A c \in e.columns :
                          ~InList(ColumnName(e, c), result.assets_not_in_catalog)

\* two columns of one table, neither resolved: one request, one edge counted
C4_Witness ==
    /\ CommitDone
    /\ hist.startEdges = {}
    /\ \E n \in DOMAIN accessed_assets :
          /\ OnlyTableResolves(accessed_assets[n])
          /\ Cardinality(accessed_assets[n].columns) = 2
    /\ Len(hist.edges) = 1
    /\ result.edges_created = 1
    /\ result.assets_not_in_catalog = <<>>

\* C5 as claimed: when a create_edge request of a create_lineage_edges call
\* failed, for a table, a column or a table-level fallback, the result has
\* success = false and a non-empty errors list.
C5_FailedCreateIsReported ==
    (CommitDone /\ \E i \in DOMAIN hist.edges : ~hist.edges[i].ok) =>
        /\ ~result.success
        /\ result.errors # <<>>

AgentCalls ==
    {"find_lineage_node_by_name", "create_lineage_node",
     "get_lineage_node_by_entity_id", "find_lineage_node_by_name_untyped"}

TrackerAsAtStart ==
    /\ accessed_assets = hist.startAssets
    /\ node_cache = hist.startCache
    /\ created_edges = hist.startEdges

\* C6: when ensure_agent_node returned None to create_lineage_edges (with an
\* asset tracked) or to cleanup_old_edges, the call returns success = false (the
\* commit with the error 'Failed to create or find agent node'), has asked the
\* service for nothing but the agent node (no asset lookup, no create_edge, no
\* get_edges, no delete_edge), and the tracked assets, NodeCache and
\* CreatedEdgeSet are as they were when the call began, also once the handler
\* has returned.
C6_AgentUnavailable ==
    /\ (/\ pc = "handler"
        /\ bigeye_client
        /\ loc.agent_id = None
        /\ (op = "cleanup" \/ hist.startAssets # <<>>)) =>
            /\ ~result.success
            /\ result.keys = {"success", "error"}
            /\ op = "commit" => result.error = "Failed to create or find agent node"
            /\ hist.calls \subseteq AgentCalls
            /\ hist.attempted = {}
            /\ hist.edges = <<>>
            /\ hist.deletes = {}
            /\ net.call = "none"
            /\ TrackerAsAtStart
    /\ (/\ op = "idle"
        /\ result.error \in {"Failed to create or find agent node",
                             "Failed to find agent node"}) =>
            TrackerAsAtStart

\* a commit with an asset tracked asked the service for the agent node, got
\* none, and returned the error
C6_Witness ==
    /\ op = "commit"
    /\ pc = "handler"
    /\ bigeye_client
    /\ loc.agent_id = None
    /\ hist.startAssets # <<>>
    /\ "create_lineage_node" \in hist.calls
    /\ result.error = "Failed to create or find agent node"

\* C7: when a create_lineage_edges call that passed its preconditions returns,
\* find_asset_node_id has been called for every table tracked with the wildcard
\* and for every column of every other tracked table, whatever the lookups and
\* the create_edge requests of the assets before them answered.
C7_EveryAssetAttempted ==
    CommitDone =>
        \A n \in DOMAIN accessed_assets :
            LET e == accessed_assets[n] IN
            IF Star \in e.columns
            THEN TableKey(e.database, e.schema, e.table) \in hist.attempted
            ELSE \A c \in e.columns :
                    ColumnKey(e.database, e.schema, e.table, c) \in hist.attempted

\* the first create_edge request failed, a lookup failed, and a later asset
\* still got its request
C7_Witness ==
    /\ CommitDone
    /\ Len(hist.edges) >= 2
    /\ ~hist.edges[1].ok
    /\ hist.missed # {}
    /\ ~result.success

ExaminedEdge == op = "cleanup" /\ loc.ei >= 1 /\ loc.edge.id = loc.ei

TouchesAgent(edge) ==
    edge.upstream_node_id = loc.agent_id \/ edge.downstream_node_id = loc.agent_id

HasTimestamp(edge) == edge.created_at.form \in {"naive", "Z", "offset"}

\* C8 as claimed: with retention_days = 0, a delete_edge request is issued for
\* every returned edge that touches the agent node and was created before the call.
C8_RetentionZeroDeletesAll ==
    (/\ ExaminedEdge
     /\ loc.retention_days = 0
     /\ TouchesAgent(loc.edge)
     /\ HasTimestamp(loc.edge)
     /\ loc.edge.created_at.t < loc.cutoff + loc.retention_days) =>
        loc.edge.id \in hist.deletes

\* C9 as claimed: for a returned edge that touches the agent node and carries a
\* creation timestamp, with or without Z or offset, a delete_edge request is
\* issued if and only if the timestamp is strictly earlier than the cutoff.
C9_DeletesIffOlderThanCutoff ==
    (ExaminedEdge /\ TouchesAgent(loc.edge) /\ HasTimestamp(loc.edge)) =>
        (loc.edge.id \in hist.deletes <=> loc.edge.created_at.t < loc.cutoff)

\* C10: a create_lineage_edges call that finds a client and nothing tracked
\* returns success = true with edges_created = 0 and has asked the service for
\* nothing; without a client it returns success = false, whatever is tracked,
\* and has asked for nothing either.
C10_NothingTracked ==
    (op = "commit" /\ pc = "handler") =>
        /\ (bigeye_client /\ hist.startAssets = <<>>) =>
              /\ result.success
              /\ "edges_created" \in result.keys
              /\ result.edges_created = 0
              /\ hist.calls = {}
              /\ hist.attempted = {}
              /\ net.call = "none"
        /\ ~bigeye_client =>
              /\ ~result.success
              /\ hist.calls = {}
              /\ net.call = "none"

\* nothing is tracked after a commit that created an edge and cleared, and the
\* next commit is the explicit no-op
C10_Witness ==
    /\ op = "commit"
    /\ pc = "handler"
    /\ bigeye_client
    /\ hist.startAssets = <<>>
    /\ okEver # {}
    /\ result.success
    /\ result.edges_created = 0


\* lineage_track_data_access has just returned: hist holds its qualified_names
\* and the tracked assets it began with
JustTracked == op = "idle" /\ result.op = "track"

Range(seq) == {seq[i] : i \in DOMAIN seq}

Reverse(seq) == [i \in DOMAIN seq |-> seq[Len(seq) + 1 - i]]

TableOf(e) == <<e.database, e.schema, e.table>>

TablesIn(assets) == {TableOf(assets[i]) : i \in DOMAIN assets}

ColumnsIn(assets, k) ==
    UNION {assets[i].columns : i \in {j \in DOMAIN assets : TableOf(assets[j]) = k}}

\* a name has 3, 4 or 5 segments
ValidName(name) == Len(Split(name)) \in {3, 4, 5}

\* what the valid names of a list ask to track: the upper-cased table with the
\* upper-cased column, Star for a name without a column
Asked(names) ==
    {LET q == parse_qualified_name(n) IN
       [table |-> <<Upper(q.database), Upper(q.schema), Upper(q.table)>>,
        column |-> IF Truthy(q.column) THEN Upper(q.column) ELSE Star] :
     n \in {m \in Range(names) : ValidName(m)}}

\* C11: after a track call each (database, schema, table) appears once, in the
\* tracked assets and in get_tracked_assets; the tables are those tracked before
\* and those of the names; the column set of each is what it was united with the
\* upper-cased columns the names give for it; tracking the same names again
\* changes nothing; and the names tracked in the reverse order leave the same
\* tables with the same column sets.
C11_TrackIsUnion ==
    JustTracked =>
        LET asked == Asked(hist.names)
            tables == get_tracked_assets(accessed_assets).tables
        IN  /\ \A i, j \in DOMAIN accessed_assets :
                  i # j => TableOf(accessed_assets[i]) # TableOf(accessed_assets[j])
            /\ \A i, j \in DOMAIN tables : i # j => TableOf(tables[i]) # TableOf(tables[j])
            /\ TablesIn(tables) = TablesIn(accessed_assets)
            /\ TablesIn(accessed_assets) =
                  TablesIn(hist.startAssets) \cup {a.table : a \in asked}
            /\ \A k \in TablesIn(accessed_assets) :
                  ColumnsIn(accessed_assets, k) =
                      ColumnsIn(hist.startAssets, k)
                          \cup {a.column : a \in {b \in asked : b.table = k}}
            /\ track_asset_access(accessed_assets, hist.names) = accessed_assets
            /\ Range(track_asset_access(hist.startAssets, Reverse(hist.names)))
                  = Range(accessed_assets)

\* a second track call gave a table already tracked with one column another one
C11_Witness ==
    /\ JustTracked
    /\ hist.startAssets # <<>>
    /\ \E i \in DOMAIN accessed_assets :
          /\ Star \notin accessed_assets[i].columns
          /\ Cardinality(accessed_assets[i].columns) >= 2
          /\ Cardinality(ColumnsIn(hist.startAssets, TableOf(accessed_assets[i]))) = 1

\* the table was tracked without a column: it was reported ["*"] before this
\* call, or a name of this call is a table name
TrackedWithoutColumn(k) ==
    \/ \E i \in DOMAIN hist.startAssets :
          TableOf(hist.startAssets[i]) = k /\ Star \in hist.startAssets[i].columns
    \/ \E n \in Range(hist.names) :
          /\ ValidName(n)
          /\ LET q == parse_qualified_name(n) IN
             /\ <<Upper(q.database), Upper(q.schema), Upper(q.table)>> = k
             /\ ~Truthy(q.column)

\* C12 as claimed: after a track call get_tracked_assets reports ["*"] for a
\* table if and only if the table was tracked without a column since the last
\* clear, otherwise exactly its tracked columns; total_tables is the number of
\* tables and total_columns the number of columns of the tables not reported ["*"].
C12_WildcardIffTrackedWithoutColumn ==
    JustTracked =>
        LET report == get_tracked_assets(accessed_assets) IN
        /\ \A i \in DOMAIN report.tables :
              LET k == TableOf(report.tables[i]) IN
              IF TrackedWithoutColumn(k)
              THEN report.tables[i].columns = {Star}
              ELSE /\ Star \notin report.tables[i].columns
                   /\ report.tables[i].columns = ColumnsIn(accessed_assets, k)
        /\ report.total_tables = Cardinality(TablesIn(accessed_assets))
        /\ report.total_columns =
              Cardinality({kc \in TablesIn(accessed_assets) \X
                                  UNION {accessed_assets[i].columns :
                                            i \in DOMAIN accessed_assets} :
                              /\ Star \notin ColumnsIn(accessed_assets, kc[1])
                              /\ kc[2] \in ColumnsIn(accessed_assets, kc[1])})

\* the names of a list that parse, in their order
ValidOnly(names) == SelectSeq(names, ValidName)

\* C13: a track call leaves the state that tracking its names of 3, 4 or 5
\* segments alone would leave, and each of those names is tracked, whatever
\* comes before it in the list.
C13_InvalidNamesSkipped ==
    JustTracked =>
        /\ accessed_assets = track_asset_access(hist.startAssets, ValidOnly(hist.names))
        /\ \A a \in Asked(hist.names) :
              a.column \in ColumnsIn(accessed_assets, a.table)

\* a name of two segments, then a table name: the table is tracked
C13_Witness ==
    /\ JustTracked
    /\ hist.startAssets = <<>>
    /\ Len(hist.names) = 2
    /\ ~ValidName(hist.names[1])
    /\ ValidName(hist.names[2])
    /\ Len(accessed_assets) = 1

\* the mapping of the segments of a name to the fields
ReferenceParse(name) ==
    LET p == Split(name)
        n == Len(p)
    IN  CASE n = 3 -> Parsed(NoneStr, p[1], p[2], p[3], NoneStr)
          [] n = 5 -> Parsed(p[1], p[2], p[3], p[4], p[5])
          [] n = 4 /\ (IsLower(p[4]) \/ HasUnderscore(p[4])) ->
                Parsed(NoneStr, p[1], p[2], p[3], p[4])
          [] n = 4 /\ ~(IsLower(p[4]) \/ HasUnderscore(p[4])) ->
                Parsed(p[1], p[2], p[3], p[4], NoneStr)
          [] OTHER -> NoParse

\* C14: parse_qualified_name gives, for every name a track call was given, the
\* reference mapping of its segments: 3 segments are database, schema, table;
\* 5 are warehouse, database, schema, table, column; 4 are database, schema,
\* table, column when the last one is lower-case or has an underscore, and
\* warehouse, database, schema, table otherwise; any other count gives nothing.
C14_ParseIsReference ==
    JustTracked =>
        \A n \in Range(hist.names) : parse_qualified_name(n) = ReferenceParse(n)

\* four segments both ways in one call: an upper-case table under a warehouse
\* and a column with an underscore
C14_Witness ==
    /\ JustTracked
    /\ \E n \in Range(hist.names) :
          /\ Len(Split(n)) = 4
          /\ Truthy(parse_qualified_name(n).warehouse)
    /\ \E n \in Range(hist.names) :
          /\ Len(Split(n)) = 4
          /\ HasUnderscore(parse_qualified_name(n).column)
          /\ ~IsLower(parse_qualified_name(n).column)


AgentNodeIds == {AgentNodeOf(n) : n \in AgentNames}

C16_AlwaysReturns ==
    /\ [](/\ pc # "raised"
          /\ pc = "ensured" => loc.agent_id \in AgentNodeIds \cup {None}
          /\ pc = "found" => loc.node_id \in AssetNodeIds \cup {None}
          /\ pc = "handler" => "success" \in result.keys /\ result.success \in BOOLEAN)
    /\ (pc \in {"ensure", "await_search", "await_create", "await_entity",
                "await_untyped"} ~> pc = "ensured")
    /\ (pc \in {"find", "await_find"} ~> pc = "found")
    /\ (op # "idle" ~> pc = "handler")

\* get_lineage_edges_for_node raised and cleanup_old_edges returned a failure
C16_Witness ==
    /\ op = "cleanup"
    /\ pc = "handler"
    /\ "get_lineage_edges_for_node" \in hist.calls
    /\ result.error = "exception"
    /\ ~result.success


\* a step that empties the tracked assets or the CreatedEdgeSet, and the steps
\* of the two callers of clear_tracked_assets
Clears ==
    \/ accessed_assets # <<>> /\ accessed_assets' = <<>>
    \/ created_edges # {} /\ created_edges' = {}
    \/ op = "idle" /\ budget' # budget /\ result'.op = "clear"
    \/ op = "commit" /\ pc = "handler" /\ result'.assets_cleared

\* C17: a step that clears empties the tracked assets and the CreatedEdgeSet
\* together, leaves the NodeCache and the memoized agent node id as they are, and
\* get_tracked_assets then reports no table and no column.
C17_ClearIsOneStep ==
    [][Clears =>
          /\ accessed_assets' = <<>>
          /\ created_edges' = {}
          /\ node_cache' = node_cache
          /\ agent_node_id' = agent_node_id
          /\ get_tracked_assets(accessed_assets').tables = <<>>
          /\ get_tracked_assets(accessed_assets').total_tables = 0
          /\ get_tracked_assets(accessed_assets').total_columns = 0]_vars

\* the clear tool after a commit that kept its assets: both are empty, the cache
\* and the agent node id are kept
C17_Witness ==
    /\ op = "idle"
    /\ result.op = "clear"
    /\ okEver # {}
    /\ accessed_assets = <<>>
    /\ created_edges = {}
    /\ node_cache # <<>>
    /\ agent_node_id # None

\* C18: when lineage_commit_agent returns, the tracked assets and the
\* CreatedEdgeSet are emptied if clear_after_commit is true and the result has
\* success = true; otherwise the tracked assets are those the call began with
\* and the CreatedEdgeSet holds every pair it held then. While
\* create_lineage_edges runs neither loses anything.
C18_ClearOnlyAfterSuccess ==
    [][/\ (op = "commit" /\ pc = "handler" /\ op' = "idle") =>
              IF loc.clear_after_commit /\ result.success
              THEN /\ accessed_assets' = <<>>
                   /\ created_edges' = {}
                   /\ result'.assets_cleared
              ELSE /\ accessed_assets' = hist.startAssets
                   /\ hist.startEdges \subseteq created_edges'
                   /\ created_edges' = created_edges
                   /\ ~result'.assets_cleared
       /\ op' = "commit" =>
              /\ accessed_assets' = hist'.startAssets
              /\ hist'.startEdges \subseteq created_edges']_vars

\* a commit that created one edge and failed on another has returned: the
\* assets and the created pair are still there
C18_Witness ==
    /\ op = "idle"
    /\ result.op = "commit"
    /\ ~result.success
    /\ result.errors # <<>>
    /\ result.edges_created = 1
    /\ accessed_assets = hist.startAssets
    /\ accessed_assets # <<>>
    /\ created_edges # {}

\* a search answered without a node: no nodes, an error object, nothing
NoNode(o) == o \in {"empty", "error", "none"}

\* C19: the requests of an ensure_agent_node call without a memoized id come in
\* the order typed search, create_node, entity lookup, untyped search, and none
\* follows an answer that yields a node: create_node follows a typed search
\* without a node; the entity lookup follows a create_node failure 'already
\* exists' with an entity id; the untyped search follows a create_node failure
\* 'already exists' without an entity id, or the entity lookup without a node;
\* nothing follows any other create_node failure. The call returns a node id
\* exactly when its last answer yields one.
C19_AgentStepsInOrder ==
    LET tr == hist.trail
        n == Len(tr)
    IN  /\ n <= 4
        /\ n >= 1 => tr[1].at = "await_search"
        /\ \A k \in 2..n :
              CASE tr[k].at = "await_create" -> k = 2 /\ NoNode(tr[1].o)
                [] tr[k].at = "await_entity" ->
                      k = 3 /\ tr[2].at = "await_create" /\ tr[2].o = "exists_entity"
                [] tr[k].at = "await_untyped" ->
                      \/ k = 3 /\ tr[2].at = "await_create" /\ tr[2].o = "exists"
                      \/ k = 4 /\ tr[3].at = "await_entity" /\ NoNode(tr[3].o)
                [] OTHER -> FALSE
        /\ \A k \in 1..(n - 1) : tr[k].o \notin {"found", "ok"}
        /\ pc = "await_search" => n = 0
        /\ pc = "await_create" => n = 1 /\ net.call = "create_lineage_node"
        /\ pc = "await_entity" =>
              /\ n = 2
              /\ tr[2].o = "exists_entity"
              /\ net.call = "get_lineage_node_by_entity_id"
        /\ pc = "await_untyped" =>
              /\ \/ n = 2 /\ tr[2].o = "exists"
                 \/ n = 3 /\ NoNode(tr[3].o)
              /\ net = Req("find_lineage_node_by_name", <<agent_name, "untyped">>)
        /\ (pc = "ensured" /\ n >= 1) =>
              /\ net.call = "none"
              /\ loc.agent_id # None <=> tr[n].o \in {"found", "ok"}
              /\ loc.agent_id # None => loc.agent_id = AgentNodeOf(agent_name)

\* all four requests were made and the last one found the node
C19_Witness ==
    /\ pc = "ensured"
    /\ Len(hist.trail) = 4
    /\ hist.trail[4].at = "await_untyped"
    /\ loc.agent_id # None

FindCalls == {"find_table_lineage_node", "find_column_lineage_node"}

\* C20: every NodeCache key is upper-case and its id is one the service answers
\* for exactly that key; an entry is never changed or removed, and one is added
\* only when the lookup of its key is answered with a node, which is the id
\* returned; a hit returns the cached id with no request; a lookup of a key not
\* in the cache asks the service; a lookup answered without a node or by an
\* exception returns None and caches nothing.
C20_NodeCache ==
    [][/\ \A k \in DOMAIN node_cache :
              /\ Upper(k) = k
              /\ node_cache[k] \in RemoteNodes(k)
              /\ k \in DOMAIN node_cache'
              /\ node_cache'[k] = node_cache[k]
       /\ node_cache' # node_cache =>
              /\ pc = "await_find"
              /\ net.call \in FindCalls
              /\ net.arg = loc.key
              /\ DOMAIN node_cache' = DOMAIN node_cache \cup {loc.key}
              /\ loc'.node_id = node_cache'[loc.key]
       /\ (pc = "find" /\ bigeye_client /\ loc.key \in DOMAIN node_cache) =>
              /\ pc' = "found"
              /\ loc'.node_id = node_cache[loc.key]
              /\ net'.call = "none"
              /\ hist'.calls = hist.calls
       /\ (pc = "find" /\ bigeye_client /\ loc.key \notin DOMAIN node_cache) =>
              /\ net'.call \in FindCalls
              /\ net'.arg = loc.key
       /\ (pc = "await_find" /\ loc'.node_id = None) =>
              /\ pc' = "found"
              /\ node_cache' = node_cache]_vars

\* a later commit finds the key in the cache and has asked nothing for it, after
\* an earlier lookup in the same call failed and cached nothing
C20_Witness ==
    /\ op = "commit"
    /\ pc = "found"
    /\ loc.key \in DOMAIN hist.startCache
    /\ loc.node_id = node_cache[loc.key]
    /\ hist.missed # {}
    /\ hist.missed \cap DOMAIN node_cache = {}

\* ------------------------------------------------------------------ C21
\* The entries of the tracked-asset map that carry the wildcard marker.
WildcardTables == {i \in DOMAIN accessed_assets : Star \in accessed_assets[i].columns}

CacheValues == {node_cache[k] : k \in DOMAIN node_cache}

\* C22: every create_edge request in flight has a resolved asset node id (a
\* value of NodeCache) as its upstream and the memoized agent node id as its
\* downstream, never the reverse and never two asset nodes; and every pair in
\* CreatedEdgeSet has an asset node first and the agent node id second.
C22_AssetToAgent ==
    /\ net.call = "create_lineage_edge"
          => /\ net.arg[1] \in CacheValues
             /\ net.arg[1] \in AssetNodeIds
             /\ net.arg[2] = agent_node_id
             /\ net.arg[2] \in AgentNodeIds
    /\ \A pair \in created_edges :
          /\ pair[1] \in AssetNodeIds
          /\ pair[2] = agent_node_id
          /\ pair[2] \in AgentNodeIds

\* A second create_edge request is in flight while CreatedEdgeSet already
\* holds a pair of an earlier one.
C22_Witness ==
    /\ net.call = "create_lineage_edge"
    /\ created_edges # {}
    /\ net.arg \notin created_edges
    /\ net.arg[1] = loc.node_id

\* ------------------------------------------------------------------ C23
\* C23: in the result of create_lineage_edges, success is true exactly when the
\* errors list is empty, whatever assets_not_in_catalog holds; edges_created is
\* the number of create_edge requests that succeeded during the call, which is
\* the number of pairs the call added to CreatedEdgeSet; and a pair is in
\* CreatedEdgeSet only if a create_edge request for it succeeded since the last
\* clear.
C23_ResultCounts ==
    /\ CommitDone
          => /\ result.success = (result.errors = <<>>)
             /\ result.edges_created = OkCount(hist.edges)
             /\ result.edges_created = Cardinality(created_edges \ hist.startEdges)
             /\ hist.startEdges \subseteq created_edges
    /\ created_edges \subseteq okSinceClear

\* A commit returns success with one edge created, one asset not in the
\* catalog and no error.
C23_Witness ==
    /\ CommitDone
    /\ result.success
    /\ result.errors = <<>>
    /\ result.assets_not_in_catalog # <<>>
    /\ result.edges_created = 1
    /\ Cardinality(created_edges \ hist.startEdges) = 1

\* ------------------------------------------------------------------ C24
CleanupDone == op = "cleanup" /\ pc = "handler" /\ "errors" \in result.keys

\* The creation timestamp of the edge does not parse, or parses to a datetime
\* that cannot be compared with the cutoff.
BadTimestamp(edge) ==
    \/ edge.created_at.form = "bad"
    \/ edge.created_at.form \in {"Z", "offset"}

\* C24, the result: edges_deleted + number of errors <= agent_edges_checked <=
\* total_edges_returned, edges_deleted is the number of delete_edge requests
\* that succeeded, success is true exactly when errors is empty, every returned
\* edge was examined and no edge has two entries in errors.
C24_CleanupResult ==
    CleanupDone =>
        /\ result.edges_deleted + Len(result.errors) <= result.agent_edges_checked
        /\ result.agent_edges_checked <= result.total_edges_returned
        /\ result.edges_deleted = Cardinality(hist.deleted)
        /\ hist.deleted \subseteq hist.deletes
        /\ Len(result.errors) =
              Cardinality({result.errors[i][2] : i \in DOMAIN result.errors})
        /\ (hist.deletes \ hist.deleted)
              \subseteq {result.errors[i][2] : i \in DOMAIN result.errors}
        /\ result.success = (result.errors = <<>>)
        /\ loc.ei = result.total_edges_returned

\* C24, one edge: examining an edge that touches the agent node and whose
\* timestamp does not parse or cannot be compared adds exactly one entry to
\* errors, examining any other edge adds none, and the loop moves on to the
\* next edge; a delete_edge request that fails adds exactly one entry, one that
\* succeeds adds none, and the loop goes on.
C24_OneErrorPerEdgeStep ==
    /\ (op = "cleanup" /\ pc = "edges" /\ loc'.ei = loc.ei + 1)
          => /\ Len(loc'.errors) = Len(loc.errors) +
                    (IF TouchesAgent(loc'.edge) /\ BadTimestamp(loc'.edge)
                     THEN 1 ELSE 0)
             /\ pc' \in {"edges", "await_delete"}
             /\ loc'.edges_deleted = loc.edges_deleted
    /\ (op = "cleanup" /\ pc = "await_delete" /\ pc' # "raised")
          => /\ pc' = "edges"
             /\ loc'.ei = loc.ei
             /\ Len(loc'.errors) + loc'.edges_deleted =
                   Len(loc.errors) + loc.edges_deleted + 1
             /\ loc'.edges_deleted = Cardinality(hist'.deleted)

\* C24: in cleanup_old_edges a failed delete_edge request or an unparsable or
\* incomparable creation timestamp for one edge adds exactly one entry to
\* errors and does not stop the remaining edges from being examined, and the
\* result satisfies the counts above.
C24_CleanupErrors == [](C24_CleanupResult) /\ [][C24_OneErrorPerEdgeStep]_vars

\* A cleanup returns after two edges: the first one had an incomparable
\* timestamp or a failed delete, the second one was deleted.
C24_Witness ==
    /\ CleanupDone
    /\ result.total_edges_returned = 2
    /\ Len(result.errors) = 1
    /\ result.errors[1][2] = 1
    /\ result.edges_deleted = 1
    /\ hist.deleted = {2}
    /\ ~result.success

\* ------------------------------------------------------------------ C25
\* lineage_commit_agent has returned from a call that went through the loops.
CommitReturned == op = "idle" /\ result.op = "commit"

\* The cache keys under which the asset (entry e, column or marker c) can have
\* been resolved: its own and, for a column, that of its table.
KeysOf(e, c) ==
    {TableKey(e.database, e.schema, e.table)} \cup
        (IF c = Star THEN {} ELSE {ColumnKey(e.database, e.schema, e.table, c)})

\* An edge from the asset's node, or from its table's node, to the agent node
\* was created successfully, in this commit or an earlier one.
EdgeCreatedFor(e, c) ==
    \E k \in KeysOf(e, c) \cap DOMAIN node_cache :
        <<node_cache[k], agent_node_id>> \in okEver

ListedNotInCatalog(e, c) ==
    \/ InList(TableName(e), result.assets_not_in_catalog)
    \/ c # Star /\ InList(ColumnName(e, c), result.assets_not_in_catalog)

StillTracked(e, c) ==
    \E j \in DOMAIN accessed_assets :
        /\ SameTable(accessed_assets[j], e.database, e.schema, e.table)
        /\ c \in accessed_assets[j].columns

\* C25 as claimed: after lineage_commit_agent returns, every asset that was
\* tracked before the call has had its edge (or its table-level fallback edge)
\* created successfully, or is listed in the result's assets_not_in_catalog, or
\* is still tracked.
C25_NoAssetDropped ==
    CommitReturned =>
        \A i \in DOMAIN hist.startAssets :
            \A c \in hist.startAssets[i].columns :
                LET e == hist.startAssets[i] IN
                \/ EdgeCreatedFor(e, c)
                \/ ListedNotInCatalog(e, c)
                \/ StillTracked(e, c)

\* ------------------------------------------------------------------ C27
\* The call of the running coroutine and the call of the other one overlap: one
\* of them began while the other was suspended.
Overlap ==
    \/ hist.with # 0 /\ hist.with = parked.hist.id
    \/ parked.hist.with # 0 /\ parked.hist.with = hist.id

\* Two overlapping calls have not both sent a create_node request for the agent.
OneAgentCreate ==
    Overlap =>
        ~("create_lineage_node" \in hist.calls /\ "create_lineage_node" \in parked.hist.calls)

\* A create_edge request that succeeds is for a pair no create_edge request has
\* succeeded for since the last clear.
OneCreatePerPair ==
    (/\ op = "commit"
     /\ pc = "await_edge"
     /\ pc' \in {"tables", "columns"}
     /\ Len(hist'.edges) = Len(hist.edges) + 1
     /\ hist'.edges[Len(hist'.edges)].ok)
        => net.arg \notin okSinceClear

\* C27 as claimed: two create_lineage_edges invocations that run concurrently on
\* one tracker, switching only at their remote calls, together issue at most one
\* successful create_edge request per (asset node, agent node) pair and at most
\* one create_node request for the agent.
C27_OncePerPairConcurrently == [](OneAgentCreate) /\ [][OneCreatePerPair]_vars

\* ------------------------------------------------------------------ C28
\* Since the running call began, assets were tracked and none was cleared.
TrackedDuringCall ==
    /\ accessed_assets # hist.startAssets
    /\ \A i \in DOMAIN hist.startAssets :
          /\ i \in DOMAIN accessed_assets
          /\ TableOf(accessed_assets[i]) = TableOf(hist.startAssets[i])
          /\ hist.startAssets[i].columns \subseteq accessed_assets[i].columns

\* The asset (entry e, column or marker c) was tracked before the running call began.
TrackedAtStart(e, c) ==
    \E i \in DOMAIN hist.startAssets :
        /\ TableOf(hist.startAssets[i]) = TableOf(e)
        /\ c \in hist.startAssets[i].columns

\* The running call has had a create_edge request answered for the node of the
\* asset or of its table.
EdgeAttemptedFor(e, c) ==
    \E j \in DOMAIN hist.edges :
        \E k \in KeysOf(e, c) \cap DOMAIN node_cache :
            hist.edges[j].pair[1] = node_cache[k]

\* lineage_commit_agent with clear_after_commit = true is about to return and
\* lineage_track_data_access ran while it was suspended.
CommitEndsAfterTracking ==
    op = "commit" /\ pc = "handler" /\ loc.clear_after_commit /\ TrackedDuringCall

\* The commit returns a result of create_lineage_edges, not the error of an
\* exception.
ReturnsResult == CommitEndsAfterTracking => "success" \in result.keys

\* Every asset tracked during the commit is covered by an edge-creation attempt
\* of the commit or is still tracked when the commit has returned.
TrackedDuringIsKept ==
    CommitEndsAfterTracking =>
        \A i \in DOMAIN accessed_assets :
            \A c \in accessed_assets[i].columns :
                LET e == accessed_assets[i] IN
                \/ TrackedAtStart(e, c)
                \/ EdgeAttemptedFor(e, c)
                \/ ~ClearsAfter(loc.clear_after_commit, result)

\* C28 as claimed: when lineage_track_data_access runs while a
\* lineage_commit_agent call with clear_after_commit = true is suspended at a
\* remote call, the commit still returns a result rather than failing on the
\* mutated asset map, and every asset tracked during the commit is, after the
\* commit returns, either covered by an edge-creation attempt of that commit or
\* still tracked.
C28_TrackDuringCommit == ReturnsResult /\ TrackedDuringIsKept

\* ------------------------------------------------------------------ C26
\* The node the asset (entry e, column or marker c) resolves to: its own node,
\* for a column without a node the node of its table, None when neither is known.
ResolvedNode(e, c) ==
    LET tk == TableKey(e.database, e.schema, e.table)
        ck == ColumnKey(e.database, e.schema, e.table, c)
    IN  IF ~TableLevel(e.columns) /\ ck \in DOMAIN node_cache THEN node_cache[ck]
        ELSE IF tk \in DOMAIN node_cache THEN node_cache[tk]
        ELSE None

\* C26 as claimed, for the calls none of whose create_edge requests failed:
\* when only this tracker writes the agent's edges, after a create_lineage_edges
\* call that returns success = true the edge from the node of every tracked
\* asset that resolves (its own node or the fallback node of its table) to the
\* agent node exists in the service's graph, whatever commits and
\* cleanup_old_edges calls came before.
C26_EdgesExistAfterSuccess ==
    (CommitDone /\ result.success /\ \A j \in DOMAIN hist.edges : hist.edges[j].ok) =>
        \A i \in DOMAIN accessed_assets :
            \A c \in accessed_assets[i].columns :
                LET node == ResolvedNode(accessed_assets[i], c) IN
                node # None => <<node, agent_node_id>> \in remote_edges

\* ------------------------------------------------------------------ C29
\* C29 as claimed: the downstream node of every create_edge request, and the
\* node whose edges a cleanup asks for, is the node the service holds for the
\* tracker's agent name at the time of the call, also after
\* lineage_track_data_access was called with a new agent_name: never a node id
\* memoized for a previous name.
C29_AgentNodeOfCurrentName ==
    /\ net.call = "create_lineage_edge" => net.arg[2] = AgentNodeOf(agent_name)
    /\ net.call = "get_lineage_edges_for_node" => net.arg[1] = AgentNodeOf(agent_name)

\* ------------------------------------------------------------------ C30
\* The letters of the names, small and capital.
Letters ==
    {<<"a", "A">>, <<"c", "C">>, <<"d", "D">>, <<"e", "E">>,
     <<"s", "S">>, <<"t", "T">>, <<"u", "U">>, <<"w", "W">>}

\* The name written in capitals and in small letters: two names that differ
\* from it in letter case only.
Caps(name) ==
    [i \in DOMAIN name |->
        IF \E l \in Letters : l[1] = name[i]
        THEN (CHOOSE l \in Letters : l[1] = name[i])[2] ELSE name[i]]

Small(name) ==
    [i \in DOMAIN name |->
        IF \E l \in Letters : l[2] = name[i]
        THEN (CHOOSE l \in Letters : l[2] = name[i])[1] ELSE name[i]]

LastSegment(name) == Split(name)[Len(Split(name))]

\* Both names have the same number of segments and, when that is 4, line 90
\* takes the last segment of both for a column or of both for a table.
SameShape(n, m) ==
    /\ Len(Split(n)) = Len(Split(m))
    /\ Len(Split(n)) = 4 =>
          (LooksLikeColumn(LastSegment(n)) <=> LooksLikeColumn(LastSegment(m)))

\* Tracking n or m from the tracked assets the call found gives the same map.
SameTracked(n, m) ==
    track_asset_access(hist.startAssets, <<n>>) =
        track_asset_access(hist.startAssets, <<m>>)

\* C30 as claimed: for any two qualified names of 3, 4 or 5 segments that
\* differ only in letter case, tracking one or the other from the same state
\* yields the same tracked-asset map.
C30_CaseInsensitive ==
    JustTracked =>
        \A i \in DOMAIN hist.names :
            LET n == hist.names[i] IN
            ValidName(n) => SameTracked(n, Caps(n)) /\ SameTracked(n, Small(n))

\* C30: two qualified names that differ only in letter case yield the same
\* tracked-asset map when they have 3 or 5 segments, and when they have 4
\* segments and the last segment of both is taken for a column (it is
\* lower-case or holds an underscore) or of both for a table.
C30_CaseInsensitiveSameShape ==
    JustTracked =>
        \A i \in DOMAIN hist.names :
            LET n == hist.names[i] IN
            ValidName(n) =>
                /\ SameShape(n, Caps(n)) => SameTracked(n, Caps(n))
                /\ SameShape(n, Small(n)) => SameTracked(n, Small(n))
                /\ SameShape(Caps(n), Small(n)) => SameTracked(Caps(n), Small(n))

\* A call tracked a 4-segment name with small letters whose last segment holds
\* an underscore: written in capitals it is another name, tracked as the same
\* column of the same table.
C30_Witness ==
    /\ JustTracked
    /\ \E i \in DOMAIN hist.names :
          LET n == hist.names[i] IN
          /\ Len(Split(n)) = 4
          /\ Caps(n) # n
          /\ SameShape(n, Caps(n))
          /\ SameTracked(n, Caps(n))
          /\ track_asset_access(hist.startAssets, <<Caps(n)>>) # hist.startAssets
          /\ \E j \in DOMAIN accessed_assets :
                Upper(LastSegment(n)) \in accessed_assets[j].columns

====
